---- MODULE Spec2Model ----
(***************************************************************************)
(* ccbase worker group (src/src/ccbase/worker_group.cc).                   *)
(*                                                                         *)
(* One WorkerGroup with NumWorkers workers, each owning a thread, one lane *)
(* of the shared task queue and a timer wheel.  Client threads post        *)
(* closures; every worker thread runs WorkerMainEntry until its stop flag  *)
(* is seen.  The task queue (ccbase/dispatch_queue.h), the timer wheel     *)
(* (ccbase/timer_wheel.h) and the thread primitive (ccbase/thread.h) are   *)
(* not part of worker_group.cc: they are modelled from their documented    *)
(* contract.                                                               *)
(***************************************************************************)
EXTENDS Integers, Sequences, FiniteSets

\* ---------------------------------------------------------------- bounds
NumWorkers == 2
NumThreads == 2
MaxQueueSize == 2
MaxPosts == 3
MaxTimerPosts == 1
MaxTasksBesideTimers == 1
MaxDelay == 2
MaxTime == 2
MaxFires == 2
MaxBadPosts == 1
MaxFailures == 1
NumGroups == 2
MaxCalls == 2

\* ------------------------------------------------------ program constants
kMaxBatchProcessTasks == 16
kPollerTimeoutMs == 1

Workers == 0 .. (NumWorkers - 1)
\* The worker_id arguments the clients pass: every worker, and one value that
\* names no worker (worker_id >= worker_num).
WorkerIds == 0 .. NumWorkers
Threads == 1 .. NumThreads
Delays == 1 .. MaxDelay
\* The posts of the workload that fills a lane beyond the cap of a batch.
BatchPosts == kMaxBatchProcessTasks + 2
TaskIds ==
  1 .. (IF MaxPosts + MaxTasksBesideTimers + MaxTimerPosts > BatchPosts
          THEN MaxPosts + MaxTasksBesideTimers + MaxTimerPosts
          ELSE BatchPosts)
Null == -1
\* The ids of the groups of the process: s_next_group_id_.fetch_add(1) gives
\* every group constructed the next one, from 0.
GroupIds == 0 .. (NumGroups - 1)
\* The id of the group whose workers are modelled, the first one constructed.
group_id == 0
\* An empty ClientContext (out_queue is nullptr).
NoCtx == << >>

VARIABLES
  queue_size,   \* the queue_size argument the group was constructed with
  lanes,        \* TaskQueue: lanes[w] is the FIFO content of consumer lane w
  producers,    \* per group: producer handles registered with its TaskQueue
  tls_client_ctx, \* per client thread and group id: the thread's
                \* ClientContext for that group (NoCtx or its out_queue)
  calls,        \* history kept by CacheSpec: per thread and group, the
                \* GetOutQueue calls made, the registrations they caused and
                \* the handles they returned
  tasks,        \* history: one record per post call, in call order
  pc,           \* per worker thread: position in WorkerMainEntry
  cnt,          \* per worker thread: cnt of BatchProcessTasks
  cur,          \* per worker thread: id of the user func it is executing
  tls_self,     \* per worker thread: Worker::tls_self_ (a worker id or Null)
  timeout_ms,   \* per worker thread: the argument of its Poll call in
                \* progress (Null outside Poll)
  stop_flag,    \* per worker: Worker::stop_flag_
  timers,       \* per worker: the timers armed on its TimerWheel
  tick_to,      \* per worker: the time its running MoveOn advances the wheel to
  running,      \* per worker: user callbacks of that worker now in progress
  now,          \* the clock, in ms
  budget,       \* the post calls the client threads still make, per kind
  deqBy,        \* history: per task, the worker that popped its closure
  nfires,       \* history: per task, how often the user's func was called
  ranOn,        \* history: per task, the workers whose thread called it
  gstate,       \* lifetime of the group: "alive", "destroying", "destroyed";
                \* "aborted" once the process has been terminated
  dying,        \* the worker whose destructor is running (or Null)
  joined        \* per worker: thread_.join() has returned

vars == << queue_size, lanes, producers, tls_client_ctx, calls, tasks, pc,
           cnt, cur, timeout_ms, tls_self, stop_flag, timers, tick_to,
           running, now, budget, deqBy, nfires, ranOn, gstate, dying, joined >>

qvars == << lanes, producers, tls_client_ctx, tasks >>
hist == << deqBy, nfires, ranOn >>
wvars == << pc, cnt, cur, timeout_ms, tls_self, timers, tick_to, running,
           hist >>
dvars == << stop_flag, gstate, dying, joined >>
wloop == << queue_size, calls, qvars, dvars, now, budget >>

\* --------------------------------------------------------------- helpers
RECURSIVE SumLen(_, _)
SumLen(f, S) ==
  IF S = {} THEN 0
  ELSE LET x == CHOOSE y \in S : TRUE IN Len(f[x]) + SumLen(f, S \ {x})

\* Items accepted by the queue and not yet popped, over all lanes.
QueueLen == SumLen(lanes, DOMAIN lanes)

\* (mutants: every lane is given the whole budget; one slot is lost)
CtorQueueCapacityPerLane(worker_num, qsize) == worker_num * qsize
CtorQueueCapacityLess(worker_num, qsize) == qsize - 1

\* WorkerGroup::WorkerGroup: queue_(std::make_shared<TaskQueue>(queue_size))
CtorQueueCapacity(worker_num, qsize) == qsize

Capacity == CtorQueueCapacity(NumWorkers, queue_size)

\* (mutant: one consumer lane more than workers is registered)
CtorLaneCountExtra(worker_num) == worker_num + 1

\* WorkerGroup::WorkerGroup: the loop calls queue_->RegisterConsumer() once
\* for every id < worker_num, so the queue has worker_num lanes.
CtorLaneCount(worker_num) == worker_num

\* The lanes of the queue, in the order they were registered.
Lanes == 0 .. (CtorLaneCount(NumWorkers) - 1)

\* (mutant: every worker is given the first lane)
CtorLaneOfFirst(id) == 0

\* WorkerGroup::WorkerGroup: worker id gets the id-th registered consumer lane.
CtorLaneOf(id) == id

\* ------------------------------------------------------------ task queue
\* OutQueue::Push(item) / OutQueue::Push(idx, item): all or nothing against
\* the shared capacity.  `to` is the set of lanes the item may be placed in.
QueueFull == QueueLen >= Capacity

PushInto(l, item) == lanes' = [lanes EXCEPT ![l] = Append(@, item)]

\* -------------------------------------------------------- closures pushed
\* wrap = "none": the user's func itself; "once"/"period": the lambda that
\* calls Worker::self()->AddTimer / AddPeriodTimer with the user's func.
FuncClosure(id) == [id |-> id, wrap |-> "none", ms |-> 0]
TimerClosure(id, ms) == [id |-> id, wrap |-> "once", ms |-> ms]
PeriodClosure(id, ms) == [id |-> id, wrap |-> "period", ms |-> ms]

\* TaskQueue::RegisterProducer of group g's queue: a new producer handle.
RegisterProducer(g) == << g, producers[g] + 1 >>

\* (mutant: the entry is filled on every call)
GetOutQueueAlways(t, g) ==
  /\ tls_client_ctx' = [tls_client_ctx EXCEPT ![t][g] = RegisterProducer(g)]
  /\ producers' = [producers EXCEPT ![g] = @ + 1]

\* WorkerGroup::GetOutQueue of group g on thread t: client_ctx is the entry of
\* the thread's own cache for group_id_ (the array slot or the map entry); an
\* empty entry is filled by RegisterProducer; its out_queue is returned.
GetOutQueue(t, g) ==
  IF tls_client_ctx[t][g] # NoCtx
    THEN UNCHANGED << tls_client_ctx, producers >>
    ELSE /\ tls_client_ctx' = [tls_client_ctx EXCEPT ![t][g] = RegisterProducer(g)]
         /\ producers' = [producers EXCEPT ![g] = @ + 1]

\* The client threads' workloads: plain posts only, or timer posts next to
\* a few plain posts.
\* bad: posts that name a worker that does not exist; fail: calls of a user's
\* func that end in an exception.
Budgets ==
  { [task |-> MaxPosts, timer |-> 0, bad |-> 0, fail |-> 0],
    [task |-> MaxTasksBesideTimers, timer |-> MaxTimerPosts, bad |-> 0,
     fail |-> 0],
    [task |-> MaxTasksBesideTimers, timer |-> 0, bad |-> MaxBadPosts,
     fail |-> 0],
    [task |-> MaxPosts - 1, timer |-> 0, bad |-> 0, fail |-> MaxFailures] }

\* The lighter workloads of the specification with fairness.
FairBudgets ==
  { [task |-> MaxPosts - 1, timer |-> 0, bad |-> 0, fail |-> 0],
    [task |-> 0, timer |-> MaxTimerPosts, bad |-> 0, fail |-> 0] }

Class(kind, target) ==
  IF target \notin Workers \cup {Null} THEN "bad"
  ELSE IF kind = "task" THEN "task" ELSE "timer"

CanPost(kind, target) ==
  gstate \in {"alive", "destroying"} /\ budget[Class(kind, target)] > 0

\* The process is terminated (a fatal error, std::terminate): no thread of it
\* takes another step and no callback is in progress any more.
Terminate ==
  /\ pc' = [w \in Workers |-> IF pc[w] = "exited" THEN "exited" ELSE "aborted"]
  /\ gstate' = "aborted"
  /\ running' = [w \in Workers |-> {}]
  /\ cur' = [w \in Workers |-> Null]

\* The process goes on.
GoOn == UNCHANGED << pc, gstate, running, cur >>

\* The record kept of a post call: its arguments, its return value, and
\* whether it found fewer accepted, not yet popped items in the queue than
\* the queue_size the group was constructed with.
PostRec(kind, target, ms, ok) ==
  [kind |-> kind, target |-> target, ms |-> ms, accepted |-> ok,
   room |-> QueueLen < queue_size]

\* One whole post call by thread t: GetOutQueue, then Push to one of `to`;
\* the call returns Push's result (negated when `negate`, for a mutant).
\* Push(idx, item) with an idx that names no lane is a contract violation:
\* nothing is enqueued, and the call returns false or ends the process.
PostCall(t, kind, target, ms, to, item, negate) ==
  /\ CanPost(kind, target)
  /\ budget' = [budget EXCEPT ![Class(kind, target)] = @ - 1]
  /\ GetOutQueue(t, group_id)
  /\ IF to \cap Lanes = {}
       THEN /\ lanes' = lanes
            /\ tasks' = Append(tasks, PostRec(kind, target, ms, negate))
            /\ (GoOn \/ Terminate)
       ELSE IF QueueFull
       THEN /\ lanes' = lanes
            /\ tasks' = Append(tasks, PostRec(kind, target, ms, negate))
            /\ GoOn
       ELSE /\ \E l \in to \cap Lanes : PushInto(l, item)
            /\ tasks' = Append(tasks, PostRec(kind, target, ms, ~negate))
            /\ GoOn
  /\ UNCHANGED << queue_size, calls, cnt, tls_self, timeout_ms, timers, tick_to, hist,
                  stop_flag, dying, joined, now >>

Post(t, kind, target, ms, to, item) ==
  PostCall(t, kind, target, ms, to, item, FALSE)

NextId == Len(tasks) + 1

\* bool WorkerGroup::PostTask(ClosureFunc<void()> func)
PostTask(t) ==
  Post(t, "task", Null, 0, Lanes, FuncClosure(NextId))

\* (mutant: the untargeted Push overload is called, worker_id is dropped)
PostTaskToAnyLane(t, worker_id) ==
  Post(t, "task", worker_id, 0, Lanes, FuncClosure(NextId))

\* (mutant: worker_id is reduced modulo the number of workers)
PostTaskToWrapped(t, worker_id) ==
  Post(t, "task", worker_id, 0, {worker_id % NumWorkers}, FuncClosure(NextId))

\* bool WorkerGroup::PostTask(size_t worker_id, ClosureFunc<void()> func)
PostTaskTo(t, worker_id) ==
  Post(t, "task", worker_id, 0, {worker_id}, FuncClosure(NextId))

\* bool WorkerGroup::PostTask(ClosureFunc<void()> func, size_t delay_ms)
PostTaskDelay(t, delay_ms) ==
  Post(t, "delay", Null, delay_ms, Lanes, TimerClosure(NextId, delay_ms))

\* (mutant: the untargeted Push overload is called, worker_id is dropped)
PostTaskToDelayAnyLane(t, worker_id, delay_ms) ==
  Post(t, "delay", worker_id, delay_ms, Lanes,
       TimerClosure(NextId, delay_ms))

\* bool WorkerGroup::PostTask(size_t worker_id, func, size_t delay_ms)
PostTaskToDelay(t, worker_id, delay_ms) ==
  Post(t, "delay", worker_id, delay_ms, {worker_id},
       TimerClosure(NextId, delay_ms))

\* (mutant: the wrapper calls AddTimer where AddPeriodTimer is meant)
PostPeriodTaskOnce(t, period_ms) ==
  Post(t, "period", Null, period_ms, Lanes, TimerClosure(NextId, period_ms))

\* bool WorkerGroup::PostPeriodTask(ClosureFunc<void()> func, size_t period_ms)
PostPeriodTask(t, period_ms) ==
  Post(t, "period", Null, period_ms, Lanes, PeriodClosure(NextId, period_ms))

\* (mutant: the call returns the negation of Push's result)
PostPeriodTaskToNegated(t, worker_id, period_ms) ==
  PostCall(t, "period", worker_id, period_ms, {worker_id},
           PeriodClosure(NextId, period_ms), TRUE)

\* bool WorkerGroup::PostPeriodTask(size_t worker_id, func, size_t period_ms)
PostPeriodTaskTo(t, worker_id, period_ms) ==
  Post(t, "period", worker_id, period_ms, {worker_id},
       PeriodClosure(NextId, period_ms))

\* ----------------------------------------------------------- worker loop
\* (mutant: the loop goes on until the worker's lane is drained)
LoopTestDrain(w) ==
  IF stop_flag[w] /\ lanes[w] = << >> THEN "exited" ELSE "moveon"

\* while (!stop_flag_.load(relaxed)): where the thread goes from the test.
LoopTest(w) == IF stop_flag[w] THEN "exited" ELSE "moveon"

\* The loop test, and on entering the body TimerWheel::MoveOn reads the clock:
\* the wheel is advanced by the time elapsed since the last advance.
LoopTop(w) ==
  /\ pc' = [pc EXCEPT ![w] = LoopTest(w)]
  /\ tick_to' = [tick_to EXCEPT ![w] = IF LoopTest(w) = "moveon" THEN now ELSE 0]

\* (mutant: tls_self_ is not set)
ThreadStartNoSelf(w) ==
  /\ pc[w] = "start"
  /\ LoopTop(w)
  /\ UNCHANGED << wloop, cnt, cur, tls_self, timeout_ms, timers, running, hist >>

\* Worker::WorkerMainEntry is entered by the new thread: tls_self_ = this,
\* then the first loop test.
ThreadStart(w) ==
  /\ pc[w] = "start"
  /\ tls_self' = [tls_self EXCEPT ![w] = w]
  /\ LoopTop(w)
  /\ UNCHANGED << wloop, cnt, cur, timeout_ms, timers, running, hist >>

\* ----------------------------------------------------------- timer wheel
\* The armed timers the running MoveOn has to fire.
Due(w) == { tm \in timers[w] : tm.due <= tick_to[w] }

\* The wheel after firing tm at the current time: a one-shot timer is gone,
\* a periodic one is armed again one period after this firing.
AfterFire(w, tm) ==
  IF tm.period = 0
    THEN timers[w] \ {tm}
    ELSE (timers[w] \ {tm})
           \cup {[tm EXCEPT !.due = now + tm.period, !.since = now]}

\* The user's func of task id is called by the thread of worker w.
Called(id, w) ==
  /\ nfires' = [nfires EXCEPT ![id] = @ + 1]
  /\ ranOn' = [ranOn EXCEPT ![id] = @ \cup {w}]

\* TimerWheel::MoveOn, one due timer: its callback is called on this thread.
MoveOnFire(w) ==
  /\ pc[w] = "moveon"
  /\ \E tm \in Due(w) :
       /\ nfires[tm.id] < MaxFires
       /\ timers' = [timers EXCEPT ![w] = AfterFire(w, tm)]
       /\ cur' = [cur EXCEPT ![w] = tm.id]
       /\ running' = [running EXCEPT ![w] = @ \cup {tm.id}]
       /\ Called(tm.id, w)
  /\ pc' = [pc EXCEPT ![w] = "timercb"]
  /\ UNCHANGED << wloop, cnt, tls_self, timeout_ms, tick_to, deqBy >>

\* The timer callback returns into MoveOn.
TimerReturn(w) ==
  /\ pc[w] = "timercb"
  /\ running' = [running EXCEPT ![w] = @ \ {cur[w]}]
  /\ cur' = [cur EXCEPT ![w] = Null]
  /\ pc' = [pc EXCEPT ![w] = "moveon"]
  /\ UNCHANGED << wloop, cnt, tls_self, timeout_ms, timers, tick_to, hist >>

\* MoveOn returns once no armed timer is due; BatchProcessTasks starts, cnt = 0.
MoveOnDone(w) ==
  /\ pc[w] = "moveon"
  /\ \A tm \in Due(w) : nfires[tm.id] >= MaxFires
  /\ pc' = [pc EXCEPT ![w] = "batch"]
  /\ cnt' = [cnt EXCEPT ![w] = 0]
  /\ tick_to' = [tick_to EXCEPT ![w] = 0]
  /\ UNCHANGED << wloop, cur, tls_self, timeout_ms, timers, running, hist >>

\* ----------------------------------------------------- BatchProcessTasks
\* The timers of worker `self` after AddTimer / AddPeriodTimer at the
\* current time (since: the time the timer was armed or last fired, kept for
\* the timing properties).
AddTimer(self, delay_ms, id) ==
  [timers EXCEPT ![self] = @ \cup {[id |-> id, due |-> now + delay_ms,
                                     period |-> 0, since |-> now]}]
AddPeriodTimer(self, period_ms, id) ==
  [timers EXCEPT ![self] = @ \cup {[id |-> id, due |-> now + period_ms,
                                     period |-> period_ms, since |-> now]}]

\* (mutant: func is handed to another thread and the loop goes on at once)
BatchPopAsync(w) ==
  /\ pc[w] = "batch"
  /\ cnt[w] < kMaxBatchProcessTasks
  /\ lanes[CtorLaneOf(w)] # << >>
  /\ Head(lanes[CtorLaneOf(w)]).wrap = "none"
  /\ LET item == Head(lanes[CtorLaneOf(w)]) IN
       /\ lanes' = [lanes EXCEPT ![CtorLaneOf(w)] = Tail(@)]
       /\ deqBy' = [deqBy EXCEPT ![item.id] = w]
       /\ running' = [running EXCEPT ![w] = @ \cup {item.id}]
       /\ Called(item.id, w)
  /\ cnt' = [cnt EXCEPT ![w] = @ + 1]
  /\ UNCHANGED << queue_size, calls, producers, tls_client_ctx, tasks, dvars, now,
                  budget, pc, cur, tls_self, timeout_ms, timers, tick_to >>

\* (mutant: the popped func is not called)
BatchPopNoCall(w) ==
  /\ pc[w] = "batch"
  /\ cnt[w] < kMaxBatchProcessTasks
  /\ lanes[CtorLaneOf(w)] # << >>
  /\ Head(lanes[CtorLaneOf(w)]).wrap = "none"
  /\ lanes' = [lanes EXCEPT ![CtorLaneOf(w)] = Tail(@)]
  /\ deqBy' = [deqBy EXCEPT ![Head(lanes[CtorLaneOf(w)]).id] = w]
  /\ cnt' = [cnt EXCEPT ![w] = @ + 1]
  /\ UNCHANGED << queue_size, calls, producers, tls_client_ctx, tasks, dvars, now,
                  budget, pc, cur, tls_self, timeout_ms, timers, tick_to, running, nfires,
                  ranOn >>

\* (mutant: the for loop has no cap)
BatchPopNoCap(w) ==
  /\ pc[w] = "batch"
  /\ lanes[CtorLaneOf(w)] # << >>
  /\ Head(lanes[CtorLaneOf(w)]).wrap = "none"
  /\ LET item == Head(lanes[CtorLaneOf(w)]) IN
       /\ lanes' = [lanes EXCEPT ![CtorLaneOf(w)] = Tail(@)]
       /\ deqBy' = [deqBy EXCEPT ![item.id] = w]
       /\ cur' = [cur EXCEPT ![w] = item.id]
       /\ running' = [running EXCEPT ![w] = @ \cup {item.id}]
       /\ Called(item.id, w)
  /\ pc' = [pc EXCEPT ![w] = "taskcb"]
  /\ UNCHANGED << queue_size, calls, producers, tls_client_ctx, tasks, dvars,
                  now, budget, cnt, tls_self, timeout_ms, timers, tick_to >>

\* One turn of the for loop that pops the user's func: inq_->Pop(&func)
\* succeeded and func() is called.
BatchPop(w) ==
  /\ pc[w] = "batch"
  /\ cnt[w] < kMaxBatchProcessTasks
  /\ lanes[CtorLaneOf(w)] # << >>
  /\ Head(lanes[CtorLaneOf(w)]).wrap = "none"
  /\ LET item == Head(lanes[CtorLaneOf(w)]) IN
       /\ lanes' = [lanes EXCEPT ![CtorLaneOf(w)] = Tail(@)]
       /\ deqBy' = [deqBy EXCEPT ![item.id] = w]
       /\ cur' = [cur EXCEPT ![w] = item.id]
       /\ running' = [running EXCEPT ![w] = @ \cup {item.id}]
       /\ Called(item.id, w)
  /\ pc' = [pc EXCEPT ![w] = "taskcb"]
  /\ UNCHANGED << queue_size, calls, producers, tls_client_ctx, tasks, dvars, now,
                  budget, cnt, tls_self, timeout_ms, timers, tick_to >>

\* The user's func() returns to BatchProcessTasks: cnt++.
TaskReturn(w) ==
  /\ pc[w] = "taskcb"
  /\ running' = [running EXCEPT ![w] = @ \ {cur[w]}]
  /\ cur' = [cur EXCEPT ![w] = Null]
  /\ cnt' = [cnt EXCEPT ![w] = @ + 1]
  /\ pc' = [pc EXCEPT ![w] = "batch"]
  /\ UNCHANGED << wloop, tls_self, timeout_ms, timers, tick_to, hist >>

\* The user's func() throws: neither BatchProcessTasks nor WorkerMainEntry
\* has a handler, the exception leaves the function of the worker's thread and
\* the process is terminated.
TaskThrow(w) ==
  /\ pc[w] = "taskcb"
  /\ budget.fail > 0
  /\ budget' = [budget EXCEPT !.fail = @ - 1]
  /\ Terminate
  /\ UNCHANGED << queue_size, calls, qvars, now, cnt, tls_self, timeout_ms, timers, tick_to,
                  hist, stop_flag, dying, joined >>

\* The call func() of BatchProcessTasks ends: func returns or throws.
TaskEnds(w) ==
  /\ pc[w] = "taskcb"
  /\ (TaskReturn(w) \/ TaskThrow(w))

\* (mutant: the wrapper of a delayed post returns without arming the timer)
BatchPopWrapperDrop(w) ==
  /\ pc[w] = "batch"
  /\ cnt[w] < kMaxBatchProcessTasks
  /\ lanes[CtorLaneOf(w)] # << >>
  /\ Head(lanes[CtorLaneOf(w)]).wrap # "none"
  /\ LET item == Head(lanes[CtorLaneOf(w)]) IN
       /\ lanes' = [lanes EXCEPT ![CtorLaneOf(w)] = Tail(@)]
       /\ deqBy' = [deqBy EXCEPT ![item.id] = w]
       /\ timers' = IF item.wrap = "once"
                      THEN timers
                      ELSE AddPeriodTimer(tls_self[w], item.ms, item.id)
  /\ cnt' = [cnt EXCEPT ![w] = @ + 1]
  /\ UNCHANGED << queue_size, calls, producers, tls_client_ctx, tasks, dvars, now,
                  budget, pc, cur, tls_self, timeout_ms, tick_to, running, nfires, ranOn >>

\* One turn of the for loop that pops a wrapper lambda and runs it: it arms
\* the timer on Worker::self() of the executing thread and returns; cnt++.
BatchPopWrapper(w) ==
  /\ pc[w] = "batch"
  /\ cnt[w] < kMaxBatchProcessTasks
  /\ lanes[CtorLaneOf(w)] # << >>
  /\ Head(lanes[CtorLaneOf(w)]).wrap # "none"
  /\ LET item == Head(lanes[CtorLaneOf(w)]) IN
       /\ lanes' = [lanes EXCEPT ![CtorLaneOf(w)] = Tail(@)]
       /\ deqBy' = [deqBy EXCEPT ![item.id] = w]
       /\ timers' = IF item.wrap = "once"
                      THEN AddTimer(tls_self[w], item.ms, item.id)
                      ELSE AddPeriodTimer(tls_self[w], item.ms, item.id)
  /\ cnt' = [cnt EXCEPT ![w] = @ + 1]
  /\ UNCHANGED << queue_size, calls, producers, tls_client_ctx, tasks, dvars, now,
                  budget, pc, cur, tls_self, timeout_ms, tick_to, running, nfires, ranOn >>

\* (mutant: the poller is always given the idle timeout)
PollTimeoutAlways(n) == kPollerTimeoutMs

\* poller_->Poll(n < kMaxBatchProcessTasks ? kPollerTimeoutMs : 0)
PollTimeout(n) == IF n < kMaxBatchProcessTasks THEN kPollerTimeoutMs ELSE 0

\* (mutant: the for loop tests the stop flag and the thread leaves at once)
BatchDoneOnStop(w) ==
  /\ pc[w] = "batch"
  /\ cnt[w] >= kMaxBatchProcessTasks \/ lanes[CtorLaneOf(w)] = << >>
       \/ stop_flag[w]
  /\ pc' = [pc EXCEPT ![w] = IF stop_flag[w] THEN "exited" ELSE "poll"]
  /\ timeout_ms' = [timeout_ms EXCEPT ![w] =
                      IF stop_flag[w] THEN Null ELSE PollTimeout(cnt[w])]
  /\ UNCHANGED << wloop, cnt, cur, tls_self, timers, tick_to, running, hist >>

\* The for loop ends: the cap is reached or Pop found the lane empty;
\* BatchProcessTasks returns cnt and the poller is called.
BatchDone(w) ==
  /\ pc[w] = "batch"
  /\ cnt[w] >= kMaxBatchProcessTasks \/ lanes[CtorLaneOf(w)] = << >>
  /\ pc' = [pc EXCEPT ![w] = "poll"]
  /\ timeout_ms' = [timeout_ms EXCEPT ![w] = PollTimeout(cnt[w])]
  /\ UNCHANGED << wloop, cnt, cur, tls_self, timers, tick_to, running, hist >>


\* DefaultWorkerPoller::Poll returns after its sleep, the iteration ends (n
\* goes out of scope) and the loop test is made again.
Poll(w) ==
  /\ pc[w] = "poll"
  /\ LoopTop(w)
  /\ cnt' = [cnt EXCEPT ![w] = 0]
  /\ timeout_ms' = [timeout_ms EXCEPT ![w] = Null]
  /\ UNCHANGED << wloop, cur, tls_self, timers, running, hist >>

\* ------------------------------------------------------------ destruction
\* WorkerGroup::~WorkerGroup destroys workers_; Worker::~Worker of w begins:
\* stop_flag_.store(true), then thread_.join() blocks.
DestroyWorker(w) ==
  /\ gstate \in {"alive", "destroying"}
  /\ dying = Null
  /\ ~joined[w]
  /\ stop_flag' = [stop_flag EXCEPT ![w] = TRUE]
  /\ dying' = w
  /\ gstate' = "destroying"
  /\ UNCHANGED << queue_size, calls, qvars, wvars, now, budget, joined >>

\* (mutant: the destructor does not wait for the thread)
JoinNoWait(w) ==
  /\ gstate = "destroying"
  /\ dying = w
  /\ joined' = [joined EXCEPT ![w] = TRUE]
  /\ dying' = Null
  /\ gstate' = IF \A v \in Workers \ {w} : joined[v]
                 THEN "destroyed" ELSE "destroying"
  /\ UNCHANGED << queue_size, calls, qvars, wvars, now, budget, stop_flag >>

\* thread_.join() returns once the thread has left WorkerMainEntry; in a
\* terminated process it never returns.
Join(w) ==
  /\ gstate = "destroying"
  /\ dying = w
  /\ pc[w] = "exited"
  /\ joined' = [joined EXCEPT ![w] = TRUE]
  /\ dying' = Null
  /\ gstate' = IF \A v \in Workers \ {w} : joined[v]
                 THEN "destroyed" ELSE "destroying"
  /\ UNCHANGED << queue_size, calls, qvars, wvars, now, budget, stop_flag >>

\* ------------------------------------------------------------------ time
\* Only the timer wheels read the clock, and only to compare it with the
\* times of their timers: the passing of time is modelled while a timer
\* closure is queued, executing or armed.
TimerPending ==
  \E w \in Workers :
    \/ timers[w] # {}
    \/ \E k \in 1 .. Len(lanes[w]) : lanes[w][k].wrap # "none"

Tick ==
  /\ gstate # "aborted"
  /\ now < MaxTime
  /\ TimerPending
  /\ now' = now + 1
  /\ UNCHANGED << queue_size, calls, qvars, wvars, dvars, budget >>

\* --------------------------------------------------------- specification
\* The state after WorkerGroup::WorkerGroup(NumWorkers, queue_size), with
\* the client threads' workload drawn from B and queue_size from Q.
InitWith(B, Q) ==
  /\ queue_size \in Q
  /\ lanes = [l \in Lanes |-> << >>]
  /\ producers = [g \in GroupIds |-> 0]
  /\ tls_client_ctx = [t \in Threads |-> [g \in GroupIds |-> NoCtx]]
  /\ calls = [t \in Threads |->
                [g \in GroupIds |-> [n |-> 0, regs |-> 0, outs |-> {}]]]
  /\ tasks = << >>
  /\ pc = [w \in Workers |-> "start"]
  /\ cnt = [w \in Workers |-> 0]
  /\ cur = [w \in Workers |-> Null]
  /\ tls_self = [w \in Workers |-> Null]
  /\ timeout_ms = [w \in Workers |-> Null]
  /\ stop_flag = [w \in Workers |-> FALSE]
  /\ timers = [w \in Workers |-> {}]
  /\ tick_to = [w \in Workers |-> 0]
  /\ running = [w \in Workers |-> {}]
  /\ now = 0
  /\ budget \in B
  /\ deqBy = [i \in TaskIds |-> Null]
  /\ nfires = [i \in TaskIds |-> 0]
  /\ ranOn = [i \in TaskIds |-> {}]
  /\ gstate = "alive"
  /\ dying = Null
  /\ joined = [w \in Workers |-> FALSE]

Init == InitWith(Budgets, 1 .. MaxQueueSize)

Next ==
  \/ \E t \in Threads : PostTask(t)
  \/ \E t \in Threads, w \in WorkerIds : PostTaskTo(t, w)
  \/ \E t \in Threads, ms \in Delays : PostTaskDelay(t, ms)
  \/ \E t \in Threads, w \in WorkerIds, ms \in Delays :
       PostTaskToDelay(t, w, ms)
  \/ \E t \in Threads, ms \in Delays : PostPeriodTask(t, ms)
  \/ \E t \in Threads, w \in WorkerIds, ms \in Delays :
       PostPeriodTaskTo(t, w, ms)
  \/ \E w \in Workers : ThreadStart(w)
  \/ \E w \in Workers : MoveOnFire(w)
  \/ \E w \in Workers : TimerReturn(w)
  \/ \E w \in Workers : MoveOnDone(w)
  \/ \E w \in Workers : BatchPop(w)
  \/ \E w \in Workers : TaskEnds(w)
  \/ \E w \in Workers : BatchPopWrapper(w)
  \/ \E w \in Workers : BatchDone(w)
  \/ \E w \in Workers : Poll(w)
  \/ \E w \in Workers : DestroyWorker(w)
  \/ \E w \in Workers : Join(w)
  \/ Tick

Spec == Init /\ [][Next]_vars

\* Every step of the thread of worker w.
WorkerStep(w) ==
  \/ ThreadStart(w)
  \/ MoveOnFire(w)
  \/ TimerReturn(w)
  \/ MoveOnDone(w)
  \/ BatchPop(w)
  \/ TaskEnds(w)
  \/ BatchPopWrapper(w)
  \/ BatchDone(w)
  \/ Poll(w)

\* The destructor of the group, once entered, goes on to the next worker.
DestroyNext == gstate = "destroying" /\ \E w \in Workers : DestroyWorker(w)

\* Scheduling: every worker thread keeps running (callbacks and Poll
\* return), a join returns once its thread has exited, and a running
\* destructor continues.  Client threads need not post, and the group need
\* not be destroyed.
Fairness ==
  /\ \A w \in Workers : WF_vars(WorkerStep(w))
  /\ \A w \in Workers : WF_vars(Join(w))
  /\ WF_vars(DestroyNext)

FairInit == InitWith(FairBudgets, 1 .. MaxQueueSize)

FairSpec == FairInit /\ [][Next]_vars /\ Fairness

\* ----------------------------------------------------- a lane with backlog
\* One worker whose lane is posted to faster than it drains: the group has a
\* queue large enough for more posts than the cap of a batch.
BatchWorker == NumWorkers - 1

BatchInit ==
  InitWith({[task |-> BatchPosts, timer |-> 0, bad |-> 0, fail |-> 0]},
           {BatchPosts})

BatchNext ==
  \/ \E t \in Threads : PostTaskTo(t, BatchWorker)
  \/ ThreadStart(BatchWorker)
  \/ MoveOnDone(BatchWorker)
  \/ BatchPop(BatchWorker)
  \/ TaskEnds(BatchWorker)
  \/ BatchDone(BatchWorker)
  \/ Poll(BatchWorker)

BatchSpec == BatchInit /\ [][BatchNext]_vars

\* ------------------------------------------------ the output-handle cache
\* One call of GetOutQueue of group g by thread t, as every post begins with,
\* with its history: the registrations it made and the handle it returned.
CallGetOutQueue(t, g) ==
  /\ calls[t][g].n < MaxCalls
  /\ GetOutQueue(t, g)
  /\ calls' = [calls EXCEPT ![t][g] =
                 [n |-> @.n + 1,
                  regs |-> @.regs + (producers'[g] - producers[g]),
                  outs |-> @.outs \cup {tls_client_ctx'[t][g]}]]
  /\ UNCHANGED << queue_size, lanes, tasks, wvars, dvars, now, budget >>

\* Threads calling GetOutQueue of the groups of the process, in any order.
CacheNext == \E t \in Threads, g \in GroupIds : CallGetOutQueue(t, g)

CacheSpec == Init /\ [][CacheNext]_vars

\* ================================================================ claims
Posted == 1 .. Len(tasks)
Accepted(i) == tasks[i].accepted
Started(i) == nfires[i] > 0

\* How often the closure of task i sits in the lanes, and how many timers
\* are armed for it.
RECURSIVE CountIn(_, _)
CountIn(q, i) ==
  IF q = << >> THEN 0
  ELSE (IF Head(q).id = i THEN 1 ELSE 0) + CountIn(Tail(q), i)

RECURSIVE SumOver(_, _, _)
SumOver(Op(_, _), S, i) ==
  IF S = {} THEN 0
  ELSE LET x == CHOOSE y \in S : TRUE IN Op(x, i) + SumOver(Op, S \ {x}, i)

InLane(w, i) == CountIn(lanes[w], i)
InWheel(w, i) == Cardinality({ tm \in timers[w] : tm.id = i })
InLanes(i) == SumOver(InLane, Workers, i)
InTimers(i) == SumOver(InWheel, Workers, i)

\* The post names an existing worker, or none.
Routed(i) == tasks[i].target \in Workers \cup {Null}

\* C1: targeted plain posts to one worker start executing in the order in
\* which they were accepted: if the later one has started, so has the earlier.
C1_LaneFifo ==
  \A a \in Posted, b \in Posted :
    ( /\ a < b
      /\ Accepted(a) /\ Accepted(b)
      /\ tasks[a].kind = "task" /\ tasks[b].kind = "task"
      /\ tasks[a].target # Null /\ tasks[a].target = tasks[b].target
      /\ Started(b) )
    => (Started(a) /\ ranOn[a] = {tasks[a].target}
                   /\ ranOn[b] = {tasks[b].target})

\* C1 witness: the earlier of two posts targeted at one worker is executing
\* on it while the later one is still queued in that worker's lane.
C1_Witness ==
  \E a \in Posted, b \in Posted, w \in Workers :
    /\ a < b
    /\ tasks[a].kind = "task" /\ tasks[a].target = w
    /\ tasks[b].kind = "task" /\ tasks[b].target = w
    /\ a \in running[w]
    /\ InLane(w, b) = 1

\* C2: no task is lost or duplicated, whichever threads post: the func of an
\* accepted plain or delayed post is, at any time, either still pending once
\* (queued in one lane, or armed as one timer) or has been called exactly
\* once, on one worker; the func of a rejected post is never called.
C2_NoLossNoDup ==
  \A i \in Posted :
    /\ Cardinality(ranOn[i]) <= 1
    /\ ~Accepted(i) => nfires[i] = 0
    /\ (Accepted(i) /\ tasks[i].kind = "task") =>
         (InLanes(i) + nfires[i] = 1 /\ InTimers(i) = 0)
    /\ (Accepted(i) /\ tasks[i].kind = "delay") =>
         InLanes(i) + InTimers(i) + nfires[i] = 1

\* C2 witness: both threads have posted, two accepted posts have each been
\* executed once and a rejected one has not run.
C2_Witness ==
  /\ \A t \in Threads : tls_client_ctx[t][group_id] # NoCtx
  /\ \E a \in Posted, b \in Posted, c \in Posted :
       /\ a # b
       /\ Accepted(a) /\ nfires[a] = 1
       /\ Accepted(b) /\ nfires[b] = 1
       /\ ~Accepted(c) /\ nfires[c] = 0

\* C3: on every worker at most one callback (task or timer callback) is in
\* progress at any time.
C3_OneAtATime == \A w \in Workers : Cardinality(running[w]) <= 1

\* C3 witness: a timer callback is executing on a worker while a task is
\* queued in that worker's lane.
C3_Witness ==
  \E w \in Workers :
    /\ pc[w] = "timercb"
    /\ running[w] = {cur[w]}
    /\ \E k \in 1 .. Len(lanes[w]) : lanes[w][k].wrap = "none"

\* C4: the accepted, not yet popped items of all lanes together never exceed
\* the queue_size the group was constructed with, and a post that finds that
\* many is rejected.
C4_CapacityBound ==
  /\ QueueLen <= queue_size
  /\ \A i \in Posted : ~tasks[i].room => ~Accepted(i)

\* C4 witness: the budget is used up by items spread over all lanes and the
\* last post was rejected.
C4_Witness ==
  /\ queue_size = MaxQueueSize
  /\ QueueLen = queue_size
  /\ \A w \in Workers : lanes[w] # << >>
  /\ tasks # << >>
  /\ ~tasks[Len(tasks)].accepted

\* C5: a post that finds fewer accepted, undrained items than the capacity is
\* accepted; in particular the post after a rejection and a drain.
C5_RoomAccepted ==
  \A i \in Posted : (tasks[i].room /\ Routed(i)) => Accepted(i)

\* C5 witness: a post was rejected by the full queue, a worker has drained an
\* item, and a later post was accepted.
C5_Witness ==
  \E a \in Posted, b \in Posted, c \in Posted :
    /\ c < a /\ a < b
    /\ deqBy[c] # Null
    /\ ~Accepted(a) /\ ~tasks[a].room
    /\ Accepted(b)

\* C6: a rejected post of any variant has no effect: its closure is in no
\* lane, no worker popped it, no timer is armed for it and its func never runs.
C6_RejectNoEffect ==
  \A i \in Posted :
    ~Accepted(i) =>
      /\ InLanes(i) = 0
      /\ InTimers(i) = 0
      /\ deqBy[i] = Null
      /\ nfires[i] = 0
      /\ \A w \in Workers : i \notin running[w]

\* C6 witness: a periodic post was rejected, the queue has since been drained
\* and no timer is armed anywhere.
C6_Witness ==
  \E i \in Posted :
    /\ tasks[i].kind = "period"
    /\ ~Accepted(i)
    /\ QueueLen = 0
    /\ \A w \in Workers : timers[w] = {} /\ pc[w] = "poll"

\* The func of task i is called in this step.
FiredNow(i) == nfires'[i] = nfires[i] + 1

\* The func of task i is called in this step by the timer wheel of the
\* worker that popped its wrapper, no earlier than ms after the timer was
\* armed (or last fired).
FiredByTimer(i) ==
  /\ deqBy[i] \in Workers
  /\ pc[deqBy[i]] = "moveon"
  /\ \E tm \in timers[deqBy[i]] :
       tm.id = i /\ now >= tm.since + tasks[i].ms

Delayed(i) == i \in Posted /\ Accepted(i) /\ tasks[i].kind = "delay"
Periodic(i) == i \in Posted /\ Accepted(i) /\ tasks[i].kind = "period"

\* Post i is an accepted untargeted delayed post.
DelayedAny(i) == Delayed(i) /\ tasks[i].target = Null

\* Until its func has run, the closure of the post is in exactly one place:
\* the wrapper in a lane while no worker has popped it, and from the pop on
\* the one-shot timer on the wheel of the worker that popped it, due delay_ms
\* after the pop; the func runs on that worker only.
C7_State ==
  \A i \in TaskIds :
    DelayedAny(i) =>
      /\ InLanes(i) + InTimers(i) + nfires[i] = 1
      /\ deqBy[i] = Null <=> InLanes(i) = 1
      /\ \A w \in Workers :
           InWheel(w, i) > 0 =>
             /\ deqBy[i] = w
             /\ \A tm \in timers[w] :
                  tm.id = i => (tm.period = 0 /\ tm.due = tm.since + tasks[i].ms)
      /\ ranOn[i] \subseteq {deqBy[i]}
      /\ nfires[i] <= 1

\* The pop of the wrapper arms the timer at once on the popping worker; the
\* func is called only by that worker's timer wheel, no earlier than delay_ms
\* after the pop; and an advance of that wheel does not end while the timer
\* is due at the time it advances to.
C7_Step ==
  \A i \in TaskIds :
    DelayedAny(i) =>
      /\ deqBy'[i] # deqBy[i] =>
           /\ deqBy[i] = Null /\ nfires'[i] = 0
           /\ \E tm \in timers'[deqBy'[i]] :
                tm.id = i /\ tm.since = now /\ tm.due = now + tasks[i].ms
      /\ FiredNow(i) => FiredByTimer(i)
      /\ \A w \in Workers :
           (pc[w] = "moveon" /\ pc'[w] = "batch") =>
             \A tm \in timers[w] : tm.id = i => tm.due > tick_to[w]

C8_TargetedDelay ==
  \A i \in TaskIds :
    (Delayed(i) /\ tasks[i].target # Null) =>
      /\ deqBy[i] \in {Null, tasks[i].target}
      /\ \A w \in Workers : InWheel(w, i) > 0 => w = tasks[i].target
      /\ ranOn[i] \subseteq {tasks[i].target}

\* C8 witness: a delayed post targeted at the last worker has run there.
C8_Witness ==
  \E i \in Posted :
    /\ tasks[i].kind = "delay" /\ tasks[i].target = NumWorkers - 1
    /\ nfires[i] = 1
    /\ ranOn[i] = {NumWorkers - 1}

C9_State ==
  \A i \in TaskIds :
    Periodic(i) =>
      /\ \A w \in Workers : InWheel(w, i) > 0 => deqBy[i] = w
      /\ ranOn[i] \subseteq {deqBy[i]}
      /\ InLanes(i) + InTimers(i) = 1

C9_Step ==
  \A i \in TaskIds :
    (Periodic(i) /\ FiredNow(i)) =>
      /\ FiredByTimer(i)
      /\ \E tm \in timers'[deqBy[i]] :
           tm.id = i /\ tm.due = now + tasks[i].ms

\* C9: an accepted periodic post: every firing is made by the timer wheel of
\* the worker that popped the wrapper, no earlier than period_ms after the
\* timer was armed or last fired, and the timer stays armed on that worker
\* after every firing, due one period later.
C9_Periodic == []C9_State /\ [][C9_Step]_vars

\* C9 witness: a periodic task has fired twice on the worker that popped its
\* wrapper and is armed there again.
C9_Witness ==
  \E i \in Posted :
    /\ tasks[i].kind = "period"
    /\ nfires[i] = 2
    /\ ranOn[i] = {deqBy[i]}
    /\ InWheel(deqBy[i], i) = 1

\* Once the stop flag of w is set, the next loop test of its thread leaves
\* the loop: the thread finishes the iteration it is in (the batch and the
\* poll call) and begins no other.
C10_Step ==
  \A w \in Workers :
    (stop_flag[w] /\ pc[w] \in {"start", "poll"} /\ pc'[w] # pc[w])
      => pc'[w] = "exited"

\* C10: destruction terminates: after the stop flag of a worker is set its
\* thread exits at the next loop test and the join returns, whatever is
\* queued or posted, and a destruction once begun joins every worker.
C10_DestroyTerminates ==
  /\ [][C10_Step]_vars
  /\ \A w \in Workers : stop_flag[w] ~> joined[w]
  /\ (gstate = "destroying") ~> (gstate = "destroyed")

\* C10 witness: the group is destroyed, every worker joined, while accepted
\* closures are still queued in a lane.
C10_Witness ==
  /\ gstate = "destroyed"
  /\ \A w \in Workers : joined[w] /\ pc[w] = "exited"
  /\ \E w \in Workers : lanes[w] # << >>
\* C11: a post that names a worker that does not exist (worker_id >=
\* worker_num) is never accepted: its closure is put in no lane, popped by no
\* worker, armed as no timer and never run.
C11_MisroutedRejected ==
  \A i \in Posted :
    ~Routed(i) =>
      /\ ~Accepted(i)
      /\ InLanes(i) = 0
      /\ InTimers(i) = 0
      /\ deqBy[i] = Null
      /\ nfires[i] = 0

\* C11 witness: a post to a worker that does not exist was made while the
\* queue had room, it returned, and the workers have since drained the lanes
\* of the other posts.
C11_Witness ==
  \E i \in Posted, j \in Posted :
    /\ ~Routed(i) /\ tasks[i].room
    /\ gstate = "alive"
    /\ Routed(j) /\ nfires[j] = 1
    /\ QueueLen = 0
    /\ \A w \in Workers : pc[w] = "poll"
\* The call of a user's func ends in this step with an exception.
Throws(w) == pc[w] = "taskcb" /\ budget'.fail < budget.fail

C12_Step ==
  \A w \in Workers :
    Throws(w) => (pc'[w] = "batch" /\ cnt'[w] = cnt[w] + 1 /\ gstate' = gstate)

\* C12: a failure raised inside a task is caught where the task is called: the
\* worker's loop goes on with the next turn of its batch.
C12_FailureContained == [][C12_Step]_vars

Untargeted(i) == i \in Posted /\ Accepted(i) /\ tasks[i].target = Null
Popped(i) == IF deqBy[i] # Null THEN 1 ELSE 0

C13_State ==
  \A i \in TaskIds :
    Untargeted(i) =>
      /\ \A l \in DOMAIN lanes : InLane(l, i) > 0 => l < NumWorkers
      /\ SumOver(InLane, DOMAIN lanes, i) + Popped(i) = 1
      /\ ranOn[i] \subseteq {deqBy[i]}

C13_Step ==
  \A i \in TaskIds :
    (Untargeted(i) /\ deqBy'[i] # deqBy[i]) => InLane(deqBy'[i], i) = 1

\* C13: the closure of an accepted untargeted post is, until it is popped, in
\* exactly one lane, whose index is below the number of workers; it is popped
\* by the worker whose id is that index, and its func runs on no other worker.
C13_UntargetedLane == []C13_State /\ [][C13_Step]_vars

\* C13 witness: two untargeted posts were delivered to different lanes, the
\* last lane among them, and each was run by the worker of its lane.
C13_Witness ==
  \E i \in Posted, j \in Posted :
    /\ Untargeted(i) /\ Untargeted(j)
    /\ ranOn[i] = {0} /\ deqBy[i] = 0
    /\ ranOn[j] = {NumWorkers - 1} /\ deqBy[j] = NumWorkers - 1

\* The thread of worker w is inside the loop of WorkerMainEntry.
InLoop(w) == pc[w] \in {"moveon", "timercb", "batch", "taskcb", "poll"}

C14_State ==
  /\ \A w \in Workers :
       /\ InLoop(w) => tls_self[w] = w
       /\ running[w] # {} => (InLoop(w) /\ tls_self[w] = w)
       /\ pc[w] = "start" => tls_self[w] = Null
  /\ \A i \in Posted, w \in Workers : InWheel(w, i) > 0 => deqBy[i] = w

C14_Step ==
  \A w \in Workers :
    /\ tls_self[w] # Null => tls_self'[w] = tls_self[w]
    /\ tls_self'[w] # tls_self[w] => (pc[w] = "start" /\ running[w] = {})

\* C14: in the thread of worker w, Worker::self() is w from the start of the
\* thread on, before any callback runs there, and is never changed again: it
\* is w while a task or timer callback runs on w, and a timer is armed only on
\* the worker that popped its wrapper.
C14_SelfIsWorker == []C14_State /\ [][C14_Step]_vars

\* C14 witness: a timer callback runs on the last worker, whose thread popped
\* the wrapper and armed the timer on Worker::self().
C14_Witness ==
  \E w \in Workers :
    /\ w = NumWorkers - 1
    /\ pc[w] = "timercb"
    /\ tls_self[w] = w
    /\ deqBy[cur[w]] = w
    /\ tasks[cur[w]].target = Null

Pairs == Threads \X GroupIds

C15_State ==
  /\ \A p \in Pairs :
       LET c == calls[p[1]][p[2]]
           ctx == tls_client_ctx[p[1]][p[2]] IN
         /\ c.n = 0 => (ctx = NoCtx /\ c.regs = 0)
         /\ c.n > 0 => (c.regs = 1 /\ ctx # NoCtx /\ ctx[1] = p[2]
                          /\ c.outs = {ctx})
  /\ \A p \in Pairs, q \in Pairs :
       (p # q /\ tls_client_ctx[p[1]][p[2]] # NoCtx)
         => tls_client_ctx[p[1]][p[2]] # tls_client_ctx[q[1]][q[2]]
  /\ \A g \in GroupIds :
       producers[g] = Cardinality({t \in Threads : calls[t][g].regs > 0})

C15_Step ==
  \A p \in Pairs :
    calls'[p[1]][p[2]] # calls[p[1]][p[2]] =>
      /\ \A q \in Pairs \ {p} :
           tls_client_ctx'[q[1]][q[2]] = tls_client_ctx[q[1]][q[2]]
      /\ tls_client_ctx[p[1]][p[2]] # NoCtx => UNCHANGED tls_client_ctx

\* C15: a producer handle is registered with a group's queue on a thread's
\* first GetOutQueue call for that group and never again for that pair; every
\* call of the pair returns that same handle, a handle of that group's queue
\* that no other pair holds; a call changes no entry but the calling thread's
\* entry for that group, and that one only while it is empty.
C15_CacheOncePerPair == []C15_State /\ [][C15_Step]_vars

\* C15 witness: every thread has called GetOutQueue of every group more than
\* once.
C15_Witness == \A p \in Pairs : calls[p[1]][p[2]].n = MaxCalls

\* The number of tasks whose func has been called.
Executed == Cardinality({i \in TaskIds : nfires[i] > 0})

\* cnt[w] is the number of tasks worker w has executed since its timer wheel
\* was last advanced, and never exceeds the cap.
C16_State == \A w \in Workers : cnt[w] \in 0 .. kMaxBatchProcessTasks

C16_Step ==
  \A w \in Workers :
    /\ (pc[w] = "moveon" /\ pc'[w] = "batch") => cnt'[w] = 0
    /\ (pc[w] = "batch" /\ pc'[w] = "taskcb") =>
         /\ cnt[w] < kMaxBatchProcessTasks
         /\ lanes[w] # << >>
         /\ cur'[w] = Head(lanes[w]).id
         /\ lanes'[w] = Tail(lanes[w])
         /\ cnt'[w] = cnt[w]
    /\ (pc[w] = "taskcb" /\ pc'[w] = "batch") => cnt'[w] = cnt[w] + 1
    /\ (pc[w] = "batch" /\ pc'[w] = "poll") =>
         /\ cnt[w] = kMaxBatchProcessTasks \/ lanes[w] = << >>
         /\ cnt'[w] = cnt[w]
    /\ (pc[w] = "poll" /\ pc'[w] # "poll") => pc'[w] \in {"moveon", "exited"}
    /\ cnt'[w] # cnt[w] => pc'[w] # pc[w]

\* C16: between two advances of its timer wheel a worker executes at most 16
\* tasks, each the head of its own lane when popped, and leaves the batch
\* early only when the lane is empty; after the batch comes one poll and then
\* the next advance of the wheel (or the exit of the loop).
C16_BatchCap == []C16_State /\ [][C16_Step]_vars

\* C16 witness: a worker has executed a full batch of 16 tasks, polled, and
\* is advancing its timer wheel again while its lane still holds tasks.
C16_Witness ==
  \E w \in Workers :
    /\ pc[w] = "moveon"
    /\ Executed = kMaxBatchProcessTasks
    /\ lanes[w] # << >>

C17_State ==
  \A w \in Workers :
    /\ pc[w] = "poll" =>
         timeout_ms[w] = (IF cnt[w] = kMaxBatchProcessTasks
                            THEN 0 ELSE kPollerTimeoutMs)
    /\ pc[w] # "poll" => timeout_ms[w] = Null

C17_Step ==
  \A w \in Workers :
    pc'[w] # pc[w] =>
      /\ pc[w] = "start" => pc'[w] \in {"moveon", "exited"}
      /\ pc[w] = "moveon" => pc'[w] \in {"timercb", "batch"}
      /\ pc[w] = "timercb" => pc'[w] = "moveon"
      /\ pc[w] = "batch" => pc'[w] \in {"taskcb", "poll"}
      /\ pc[w] = "taskcb" => pc'[w] = "batch"
      /\ pc[w] = "poll" => pc'[w] \in {"moveon", "exited"}

\* C17: every iteration of the loop advances the timer wheel, then drains a
\* batch, then polls; the timeout given to the poller is 0 when the batch
\* executed 16 tasks and kPollerTimeoutMs (1) when it executed fewer, none
\* included.
C17_LoopOrder == []C17_State /\ [][C17_Step]_vars

\* C17 witness: a worker polls with timeout 0 after a batch of 16 tasks.
C17_Witness ==
  \E w \in Workers :
    /\ pc[w] = "poll"
    /\ cnt[w] = kMaxBatchProcessTasks
    /\ timeout_ms[w] = 0

\* The lifecycle state of worker w.
Life(w) ==
  IF joined[w] THEN "Joined" ELSE IF stop_flag[w] THEN "Stopping" ELSE "Running"

C18_State ==
  \A w \in Workers :
    joined[w] => (stop_flag[w] /\ pc[w] = "exited" /\ running[w] = {})

C18_Step ==
  \A w \in Workers :
    /\ Life(w)' # Life(w) =>
         \/ Life(w) = "Running" /\ Life(w)' = "Stopping"
         \/ Life(w) = "Stopping" /\ Life(w)' = "Joined"
    /\ stop_flag[w] => stop_flag'[w]
    /\ (Life(w) = "Running" /\ Life(w)' = "Stopping") =>
         (gstate \in {"alive", "destroying"} /\ gstate' = "destroying"
          /\ dying' = w)
    /\ joined[w] =>
         /\ pc'[w] = pc[w] /\ running'[w] = {} /\ timers'[w] = timers[w]
         /\ Len(lanes'[w]) >= Len(lanes[w])
         /\ \A i \in TaskIds : w \in ranOn'[i] => nfires'[i] = nfires[i]

\* C18: the lifecycle of a worker only moves Running -> Stopping -> Joined:
\* the stop flag, once true, stays true; it is set only by the worker's
\* destructor during the destruction of the group; a joined worker's thread
\* has exited and pops nothing and runs no task or timer callback any more.
C18_Lifecycle == []C18_State /\ [][C18_Step]_vars

\* C18 witness: one worker is joined with closures left in its lane while
\* another, not yet told to stop, is executing a callback.
C18_Witness ==
  \E w \in Workers, v \in Workers :
    /\ Life(w) = "Joined" /\ lanes[w] # << >>
    /\ Life(v) = "Running" /\ running[v] # {}

C19_State ==
  \A w \in Workers :
    /\ pc[w] = "exited" => (stop_flag[w] /\ running[w] = {} /\ cur[w] = Null)
    /\ joined[w] => pc[w] = "exited"

C19_Step ==
  \A w \in Workers :
    /\ (stop_flag'[w] /\ ~stop_flag[w]) =>
         /\ pc'[w] = pc[w] /\ running'[w] = running[w] /\ cur'[w] = cur[w]
         /\ cnt'[w] = cnt[w] /\ lanes' = lanes /\ timers' = timers
    /\ (pc'[w] = "exited" /\ pc[w] # "exited") =>
         (pc[w] \in {"start", "poll"} /\ stop_flag[w] /\ running[w] = {})
    /\ (stop_flag[w] /\ gstate' # "aborted" /\ pc'[w] # pc[w]) =>
         /\ pc[w] = "taskcb" => (pc'[w] = "batch" /\ cnt'[w] = cnt[w] + 1)
         /\ pc[w] = "timercb" => pc'[w] = "moveon"
         /\ pc[w] = "batch" => pc'[w] \in {"taskcb", "poll"}
         /\ pc[w] = "moveon" => pc'[w] \in {"timercb", "batch"}

\* C19: setting the stop flag aborts nothing: the step that sets it changes
\* nothing of the worker's thread, a callback in flight returns to the loop,
\* the batch and the poll go on as without the flag, and the thread exits
\* only from the loop test, with no callback in progress; the join returns
\* only after that.
C19_NoForcedAbort == []C19_State /\ [][C19_Step]_vars

\* C19 witness: the destructor of a worker has set the stop flag and waits
\* in join while a task of that worker is in flight and more are queued.
C19_Witness ==
  \E w \in Workers :
    /\ stop_flag[w] /\ dying = w /\ ~joined[w]
    /\ pc[w] = "taskcb" /\ running[w] # {}
    /\ lanes[w] # << >>

\* The ids of the posts the workloads of FairSpec can make.
FairIds == 1 .. MaxPosts

\* Post i is an accepted plain post targeted at a worker.
TargetedTask(i) ==
  /\ i \in Posted /\ Accepted(i)
  /\ tasks[i].kind = "task" /\ tasks[i].target \in Workers

\* C20: while the group is not being destroyed, every accepted plain post
\* targeted at worker w is eventually executed, by w, whatever else is posted
\* to w's lane and to the other lanes meanwhile.
C20_TargetedEventuallyRuns ==
  \A i \in FairIds :
    TargetedTask(i) ~>
      ((nfires[i] = 1 /\ ranOn[i] = {tasks[i].target}) \/ gstate # "alive")

\* C20 witness: the group is alive, a post targeted at the last worker has
\* been executed by it, and a post made later by another call is still queued.
C20_Witness ==
  \E i \in FairIds, j \in Posted :
    /\ gstate = "alive"
    /\ TargetedTask(i) /\ tasks[i].target = NumWorkers - 1
    /\ nfires[i] = 1 /\ ranOn[i] = {NumWorkers - 1}
    /\ j > i /\ Accepted(j) /\ InLanes(j) = 1
====
